---- MODULE Spec2Model ----
(***************************************************************************)
(* Model of the weighted tree of tree_data.py (class AbstractTree and its  *)
(* FileSystemTree adapter): construction, delete, update_size,             *)
(* change_prop, and the layout functions generate_treemap and leaf_at.     *)
(*                                                                         *)
(* Objects are numbered in construction order; each attribute is a         *)
(* sequence indexed by object number, and Python's None is 0.              *)
(* Python floats are modelled by exact rational arithmetic: for the sizes  *)
(* and proportions inside the bounds below, int(a / b * w) and             *)
(* math.ceil(w * p) computed in IEEE doubles agree with the exact values   *)
(* (the first disagreement of int(a / b * w) is at b = 22).                *)
(* The diagnostic file that generate_treemap writes is not modelled.       *)
(***************************************************************************)
EXTENDS Integers, Sequences, FiniteSets, TLC

\* ---------------------------------------------------------------- bounds
MaxNodes == 3         \* objects built, in the specifications of the mutations
MaxLayoutNodes == 4   \* objects built, in the specifications of the layout and of leaf mutations
MaxHitNodes == 6      \* objects built, in the specification of leaf_at
MaxFileSize == 2      \* largest data_size of a file
MaxSize == 3          \* change_prop is not called when a data_size would pass it
MaxSeed == 0          \* seeds of the random source
MaxW == 2             \* largest rectangle width
MaxH == 2             \* largest rectangle height

None == 0

\* Proportions handed to change_prop, as <<numerator, denominator>>:
\* 0.25, 0, -0.01, -0.9, -1.5  (0.01 is the magnitude the event loop passes).
Proportions == {<<1, 4>>, <<0, 1>>, <<-1, 100>>, <<-9, 10>>, <<-3, 2>>}

VARIABLES
    root,         \* _root:        object -> label, None when the tree is empty
    subtrees,     \* _subtrees:    object -> sequence of objects
    parent_tree,  \* _parent_tree: object -> object or None
    data_size,    \* data_size:    object -> integer
    colour,       \* colour:       object -> <<r, g, b>>
    tree_list,    \* the adapter's list of built trees not yet given a parent
    rng,          \* state of the random source behind randint
    tree,         \* the tree handed to run_visualisation, None while building
    screen,       \* the rectangle <<0, 0, WIDTH, TREEMAP_HEIGHT>> of the treemap
    selected_leaf, \* event_loop's selected_leaf: an object or None
    last          \* the last call: its name, receiver, arguments, outcome

vars == <<root, subtrees, parent_tree, data_size, colour, tree_list, rng, tree, screen,
          selected_leaf, last>>

\* ------------------------------------------------------------ arithmetic
abs(v) == IF v < 0 THEN -v ELSE v

\* math.ceil(num / den) for den > 0
ceil(num, den) == -((-num) \div den)

\* int(num / den) for den # 0: truncation toward zero
int(num, den) ==
    LET q == abs(num) \div abs(den)
    IN  IF (num < 0) = (den < 0) THEN q ELSE -q

\* random.randint(0, 255) on the generator state s, and the state after it
randint(s) == (s \div 7) % 256

rng_next(s) == (s * 75 + 74) % 65537

RECURSIVE Sum(_, _)
Sum(ds, seq) == IF seq = <<>> THEN 0 ELSE ds[Head(seq)] + Sum(ds, Tail(seq))

Range(seq) == {seq[i] : i \in 1..Len(seq)}

\* The objects built so far.
Built == 1..Len(root)

\* ------------------------------------------------------------------ Init
Init ==
    /\ root = <<>>
    /\ subtrees = <<>>
    /\ parent_tree = <<>>
    /\ data_size = <<>>
    /\ colour = <<>>
    /\ tree_list = <<>>
    /\ rng \in 0..MaxSeed
    /\ tree = None
    /\ screen = <<0, 0, 0, 0>>
    /\ selected_leaf = None
    /\ last = [op |-> "start", self |-> None, arg |-> <<>>, size |-> 0, ret |-> None]

\* ---------------------------------------------------- AbstractTree.__init__
\* The data_size the constructor leaves in the new object: the argument, plus
\* every subtree's data_size when <subtrees0> is not empty.
init_data_size(subtrees0, data_size0) ==
    IF subtrees0 # <<>> THEN data_size0 + Sum(data_size, subtrees0) ELSE data_size0

\* AbstractTree.__init__(self, root0, subtrees0, data_size0); self is the new
\* object, numbered Len(root) + 1.
AbstractTree_init(root0, subtrees0, data_size0) ==
    LET self == Len(root) + 1
    IN  /\ root' = Append(root, root0)
        /\ subtrees' = Append(subtrees, subtrees0)
        /\ parent_tree' = Append([t \in Built |->
                                     IF t \in Range(subtrees0) THEN self
                                     ELSE parent_tree[t]], None)
        /\ colour' = Append(colour, <<randint(rng), randint(rng_next(rng)),
                                      randint(rng_next(rng_next(rng)))>>)
        /\ rng' = rng_next(rng_next(rng_next(rng)))
        /\ data_size' = Append(data_size, init_data_size(subtrees0, data_size0))
        /\ last' = [op |-> "__init__", self |-> self, arg |-> <<subtrees0, data_size0>>,
                    size |-> 0, ret |-> None]

\* FileSystemTree.__init__ on the path of a regular file of <size> bytes.
FileSystemTreeFile(size) ==
    /\ tree = None
    /\ AbstractTree_init(Len(root) + 1, <<>>, size)
    /\ tree_list' = Append(tree_list, Len(root) + 1)
    /\ UNCHANGED <<tree, screen, selected_leaf>>

\* FileSystemTree.__init__ on a folder whose entries are the last k built trees.
FileSystemTreeDir(k) ==
    /\ tree = None
    /\ k \in 0..Len(tree_list)
    /\ AbstractTree_init(Len(root) + 1,
                         SubSeq(tree_list, Len(tree_list) - k + 1, Len(tree_list)), 0)
    /\ tree_list' = Append(SubSeq(tree_list, 1, Len(tree_list) - k), Len(root) + 1)
    /\ UNCHANGED <<tree, screen, selected_leaf>>

\* A direct call of the constructor with both a subtrees list (the last k
\* built trees) and a data_size argument.
AbstractTreeCall(k, size) ==
    /\ tree = None
    /\ k \in 0..Len(tree_list)
    /\ AbstractTree_init(Len(root) + 1,
                         SubSeq(tree_list, Len(tree_list) - k + 1, Len(tree_list)), size)
    /\ tree_list' = Append(SubSeq(tree_list, 1, Len(tree_list) - k), Len(root) + 1)
    /\ UNCHANGED <<tree, screen, selected_leaf>>

\* run_treemap_file_system: the adapter has returned one tree, which is handed
\* to run_visualisation; every later call is made on an object of that tree.
\* <rect> is the rectangle the treemap is displayed in.
run_treemap_file_system(rect) ==
    /\ tree = None
    /\ Len(tree_list) = 1
    /\ tree' = tree_list[1]
    /\ screen' = rect
    /\ selected_leaf' = None
    /\ last' = [op |-> "run_visualisation", self |-> tree_list[1], arg |-> <<>>,
                size |-> 0, ret |-> None]
    /\ UNCHANGED <<root, subtrees, parent_tree, data_size, colour, tree_list, rng>>

\* ------------------------------------------------------------ update_size
\* AbstractTree.update_size: the data_size map after adding <size_change> to
\* <self> and to each of its ancestors.
\* update_size that forgets the ancestors.
update_size_self_only(ds, self, size_change) ==
    [ds EXCEPT ![self] = @ + size_change]

RECURSIVE update_size(_, _, _)
update_size(ds, self, size_change) ==
    LET ds1 == [ds EXCEPT ![self] = @ + size_change]
    IN  IF parent_tree[self] # None
        THEN update_size(ds1, parent_tree[self], size_change)
        ELSE ds1

\* ------------------------------------------------------------ change_prop
\* The size_change that change_prop hands to update_size.
\* The size_change without the floor of 1.
size_change_unclamped(size, proportion) ==
    IF proportion[1] >= 0 THEN ceil(size * proportion[1], proportion[2])
    ELSE ceil(size * abs(proportion[1]), proportion[2]) * (-1)

size_change_of(size, proportion) ==
    LET num == proportion[1]
        den == proportion[2]
        wanted == IF num >= 0 THEN ceil(size * num, den)
                  ELSE ceil(size * abs(num), den) * (-1)
    IN  IF size + wanted < 1 THEN size - 1 ELSE wanted

change_prop(self, proportion) ==
    /\ data_size' = update_size(data_size, self,
                                size_change_of(data_size[self], proportion))
    /\ last' = [op |-> "change_prop", self |-> self, arg |-> proportion,
                size |-> data_size[self], ret |-> None]
    /\ UNCHANGED <<root, subtrees, parent_tree, colour, tree_list, rng, tree, screen>>

\* ----------------------------------------------------------------- delete
\* delete that also removes the object from its parent's _subtrees.
delete_spliced(self) ==
    /\ parent_tree[self] # None
    /\ root' = [root EXCEPT ![self] = None]
    /\ data_size' = [update_size(data_size, parent_tree[self], data_size[self] * (-1))
                        EXCEPT ![self] = 0]
    /\ parent_tree' = [parent_tree EXCEPT ![self] = None]
    /\ subtrees' = [subtrees EXCEPT ![parent_tree[self]] =
                        SelectSeq(@, LAMBDA c : c # self)]
    /\ last' = [op |-> "delete", self |-> self, arg |-> <<>>,
                size |-> data_size[self], ret |-> None]
    /\ UNCHANGED <<colour, tree_list, rng, tree, screen>>

\* AbstractTree.delete on an object that has a parent.
delete(self) ==
    /\ parent_tree[self] # None
    /\ root' = [root EXCEPT ![self] = None]
    /\ data_size' = [update_size(data_size, parent_tree[self], data_size[self] * (-1))
                        EXCEPT ![self] = 0]
    /\ parent_tree' = [parent_tree EXCEPT ![self] = None]
    /\ last' = [op |-> "delete", self |-> self, arg |-> <<>>,
                size |-> data_size[self], ret |-> None]
    /\ UNCHANGED <<subtrees, colour, tree_list, rng, tree, screen>>

\* ------------------------------------------------------------ the callers
is_empty(t) == root[t] = None

IsLeaf(t) == root[t] # None /\ subtrees[t] = <<>>

\* No data_size passes MaxSize when change_prop(proportion) is called on t.
Fits(t, proportion) ==
    \A a \in Built :
        update_size(data_size, t, size_change_of(data_size[t], proportion))[a] <= MaxSize

\* The display when only the tree matters.
Screen == <<0, 0, MaxW, MaxH>>

\* The adapter builds one more object, at most <cap> in all.
Construct(cap) ==
    /\ Len(root) < cap
    /\ \/ \E size \in 0..MaxFileSize : FileSystemTreeFile(size)
       \/ \E k \in 0..cap : FileSystemTreeDir(k)

\* delete() on a labelled leaf that has a parent
DeleteLeaf ==
    /\ tree # None
    /\ \E t \in Built : IsLeaf(t) /\ delete(t)
    /\ UNCHANGED selected_leaf

\* change_prop(p) on any object of data_size >= 1
Resize ==
    /\ tree # None
    /\ \E t \in Built, p \in Proportions :
        /\ data_size[t] >= 1
        /\ Fits(t, p)
        /\ change_prop(t, p)
    /\ UNCHANGED selected_leaf

\* change_prop(p) on an object of data_size 0
ResizeZero ==
    /\ tree # None
    /\ \E t \in Built, p \in Proportions :
        /\ data_size[t] = 0
        /\ change_prop(t, p)
    /\ UNCHANGED selected_leaf

\* The constructor called directly, with any data_size argument.
ConstructAny ==
    /\ Len(root) < MaxNodes
    /\ \E k \in 0..MaxNodes, size \in 0..MaxFileSize : AbstractTreeCall(k, size)

Run == run_treemap_file_system(Screen)

Next == Construct(MaxNodes) \/ Run \/ DeleteLeaf \/ Resize

Spec == Init /\ [][Next]_vars

NextDegenerate ==
    Construct(MaxNodes) \/ Run \/ DeleteLeaf \/ Resize \/ ResizeZero

SpecDegenerate == Init /\ [][NextDegenerate]_vars

NextConstruct == ConstructAny

SpecConstruct == Init /\ [][NextConstruct]_vars

\* ------------------------------------------------------- generate_treemap
\* A call that returns v, and a call that ends with AttributeError (None has
\* no generate_treemap / leaf_at attribute).
Return(v) == [raised |-> FALSE, value |-> v]

AttributeError == [raised |-> TRUE, value |-> None]

\* int(subtree.data_size / self.data_size * extent): the strip of a subtree
\* that is not the last one.
\* A strip that is never narrower than one unit.
strip_never_empty(size, total, extent) ==
    IF int(size * extent, total) = 0 THEN 1 ELSE int(size * extent, total)

strip(size, total, extent) == int(size * extent, total)

\* The remaining extent without the offset of the rectangle.
rest_without_origin(extent, pos, ini) == extent - pos

\* w - x + ini_x (h - y + ini_y): what remains of the extent from pos on.
rest(extent, pos, ini) == extent - pos + ini

\* A slice that keeps the earlier rectangles of the re-stretched subtree.
slice_keeps_all(result, k) == result

\* result[:-k]
slice_off(result, k) ==
    IF k = 0 THEN <<>>
    ELSE SubSeq(result, 1, IF Len(result) > k THEN Len(result) - k ELSE 0)

RECURSIVE generate_treemap(_, _)
RECURSIVE treemap_loop(_, _, _, _, _, _, _)

\* AbstractTree.generate_treemap(self, rect), rect = <<x, y, width, height>>;
\* the value is the list of <<rectangle, colour>>.
generate_treemap(self, rect) ==
    IF data_size[self] = 0 THEN Return(<<>>)
    ELSE IF Len(subtrees[self]) = 0 THEN Return(<< <<rect, colour[self]>> >>)
    ELSE treemap_loop(self, rect, 1, rect[1], rect[2], <<>>, <<None, 0, 0>>)

\* Iteration i of the for loop of generate_treemap, entered with the loop's
\* x, y, result and last_tree; the value is what generate_treemap returns.
treemap_loop(self, rect, i, x, y, result, last_tree) ==
    LET ini_x == rect[1]
        ini_y == rect[2]
        w == rect[3]
        h == rect[4]
        n == Len(subtrees[self])
        subtree == subtrees[self][i]
    IN
    IF i > n THEN Return(result)
    ELSE IF w > h THEN
        LET local_w == IF i < n THEN strip(data_size[subtree], data_size[self], w)
                       ELSE rest(w, x, ini_x)
            sub_treemap == generate_treemap(subtree, <<x, y, local_w, h>>)
            result1 == result \o sub_treemap.value
            last_tree1 == IF sub_treemap.value # <<>>
                          THEN <<subtree, Len(sub_treemap.value), x>>
                          ELSE last_tree
        IN  IF sub_treemap.raised THEN AttributeError
            ELSE IF i = n THEN
                LET x2 == last_tree1[3]
                    result2 == slice_off(result1, last_tree1[2])
                    local_w2 == rest(w, x2, ini_x)
                    stretched == generate_treemap(last_tree1[1], <<x2, y, local_w2, h>>)
                IN  IF last_tree1[1] = None THEN AttributeError
                    ELSE IF stretched.raised THEN AttributeError
                    ELSE Return(result2 \o stretched.value)
            ELSE treemap_loop(self, rect, i + 1, x + local_w, y, result1, last_tree1)
    ELSE
        LET local_h == IF i < n THEN strip(data_size[subtree], data_size[self], h)
                       ELSE rest(h, y, ini_y)
            sub_treemap == generate_treemap(subtree, <<x, y, w, local_h>>)
            result1 == result \o sub_treemap.value
            last_tree1 == IF sub_treemap.value # <<>>
                          THEN <<subtree, Len(sub_treemap.value), y>>
                          ELSE last_tree
        IN  IF sub_treemap.raised THEN AttributeError
            ELSE IF i = n THEN
                LET y2 == last_tree1[3]
                    result2 == slice_off(result1, last_tree1[2])
                    local_h2 == rest(h, y2, ini_y)
                    stretched == generate_treemap(last_tree1[1], <<x, y2, w, local_h2>>)
                IN  IF last_tree1[1] = None THEN AttributeError
                    ELSE IF stretched.raised THEN AttributeError
                    ELSE Return(result2 \o stretched.value)
            ELSE treemap_loop(self, rect, i + 1, x, y + local_h, result1, last_tree1)

\* ---------------------------------------------------------------- leaf_at
RECURSIVE leaf_at(_, _, _)
RECURSIVE leaf_loop(_, _, _, _, _, _, _, _)

\* AbstractTree.leaf_at(self, pos, rect); the value is an object or None.
leaf_at(self, pos, rect) ==
    LET x == rect[1]
        y == rect[2]
        w == rect[3]
        h == rect[4]
    IN
    IF data_size[self] = 0 THEN Return(None)
    ELSE IF Len(subtrees[self]) = 0 THEN
        IF x <= pos[1] /\ pos[1] <= x + w /\ y <= pos[2] /\ pos[2] <= y + h
        THEN Return(self)
        ELSE Return(None)
    ELSE leaf_loop(self, pos, rect, 1, x, y, <<None, 0, 0>>, None)

\* Iteration i of the for loop of leaf_at, entered with the loop's x, y,
\* last_tree and result; the value is what leaf_at returns.
leaf_loop(self, pos, rect, i, x, y, last_tree, result) ==
    LET ini_x == rect[1]
        ini_y == rect[2]
        w == rect[3]
        h == rect[4]
        n == Len(subtrees[self])
        subtree == subtrees[self][i]
    IN
    IF i > n THEN Return(result)
    ELSE IF result # None THEN Return(result)
    ELSE IF w > h THEN
        LET local_w == strip(data_size[subtree], data_size[self], w)
            positive == data_size[subtree] > 0
            last_tree1 == IF positive THEN <<subtree, x, y>> ELSE last_tree
            found == IF positive THEN leaf_at(subtree, pos, <<x, y, local_w, h>>)
                     ELSE Return(result)
        IN  IF found.raised THEN AttributeError
            ELSE IF i = n THEN
                LET local_w2 == rest(w, last_tree1[2], ini_x)
                IN  IF last_tree1[1] = None THEN AttributeError
                    ELSE leaf_at(last_tree1[1], pos,
                                 <<last_tree1[2], last_tree1[3], local_w2, h>>)
            ELSE leaf_loop(self, pos, rect, i + 1, x + local_w, y, last_tree1, found.value)
    ELSE
        LET local_h == strip(data_size[subtree], data_size[self], h)
            positive == data_size[subtree] > 0
            last_tree1 == IF positive THEN <<subtree, x, y>> ELSE last_tree
            found == IF positive THEN leaf_at(subtree, pos, <<x, y, w, local_h>>)
                     ELSE Return(result)
        IN  IF found.raised THEN AttributeError
            ELSE IF i = n THEN
                LET local_h2 == rest(h, last_tree1[3], ini_y)
                IN  IF last_tree1[1] = None THEN AttributeError
                    ELSE leaf_at(last_tree1[1], pos,
                                 <<last_tree1[2], last_tree1[3], w, local_h2>>)
            ELSE leaf_loop(self, pos, rect, i + 1, x, y + local_h, last_tree1, found.value)

\* render_display: tree.generate_treemap on the rectangle of the display.
GenerateTreemap ==
    /\ tree # None
    /\ last' = [op |-> "generate_treemap", self |-> tree, arg |-> screen,
                size |-> data_size[tree], ret |-> generate_treemap(tree, screen)]
    /\ UNCHANGED <<root, subtrees, parent_tree, data_size, colour, tree_list, rng,
                   tree, screen, selected_leaf>>

\* event_loop: tree.leaf_at(pos, rect) with the position of the mouse.
LeafAt(pos) ==
    /\ tree # None
    /\ last' = [op |-> "leaf_at", self |-> tree, arg |-> <<pos, screen>>,
                size |-> data_size[tree], ret |-> leaf_at(tree, pos, screen)]
    /\ UNCHANGED <<root, subtrees, parent_tree, data_size, colour, tree_list, rng,
                   tree, screen, selected_leaf>>

\* The rectangles the treemap is displayed in: every width and height in the
\* bounds, at the origin (as the visualiser does) and away from it.
Origins == {<<0, 0>>, <<1, 2>>}

Rects == {<<o[1], o[2], w, h>> : o \in Origins, w \in 0..MaxW, h \in 0..MaxH}

\* The positions inside a rectangle, edges included.
Inside(rect) ==
    {<<px, py>> : px \in rect[1]..(rect[1] + rect[3]), py \in rect[2]..(rect[2] + rect[4])}

RunAny == \E rect \in Rects : run_treemap_file_system(rect)

HitInside == \E pos \in Inside(screen) : LeafAt(pos)

NextLayout ==
    Construct(MaxLayoutNodes) \/ RunAny \/ DeleteLeaf \/ GenerateTreemap

SpecLayout == Init /\ [][NextLayout]_vars

NextHit ==
    Construct(MaxHitNodes) \/ RunAny \/ HitInside

SpecHit == Init /\ [][NextHit]_vars

\* --------------------------------------- leaf_at after leaf deletions
\* The positions in and around a rectangle: one step beyond each edge.
Around(rect) ==
    {<<px, py>> : px \in (rect[1] - 1)..(rect[1] + rect[3] + 1),
                  py \in (rect[2] - 1)..(rect[2] + rect[4] + 1)}

\* leaf_at changes no attribute, so a call made right after another call
\* reaches nothing that a first call does not: it is left out.
HitAround ==
    /\ last.op # "leaf_at"
    /\ \E pos \in Around(screen) : LeafAt(pos)

\* The displays at the origin that are square, wider than high and higher than
\* wide; narrower rectangles, and rectangles away from the origin, are the
\* ones leaf_at hands to the subtrees.
Displays == {<<0, 0, w, h>> : w \in (MaxW - 1)..MaxW, h \in (MaxH - 1)..MaxH}

RunDisplay == \E rect \in Displays : run_treemap_file_system(rect)

NextLeafAt ==
    Construct(MaxLayoutNodes) \/ RunDisplay \/ DeleteLeaf \/ HitAround

SpecLeafAt == Init /\ [][NextLeafAt]_vars

\* ------------------------------------ the tree without zero-weight children
\* The tree the layout is compared with: every child of data_size 0 is taken
\* out of every _subtrees list (and loses its parent link); <last> keeps the
\* lists as they were and what generate_treemap returned before the removal.
RemoveZero ==
    /\ tree # None
    /\ \E t \in Built : \E c \in Range(subtrees[t]) : data_size[c] = 0
    /\ subtrees' = [t \in Built |-> SelectSeq(subtrees[t], LAMBDA c : data_size[c] # 0)]
    /\ parent_tree' = [t \in Built |-> IF data_size[t] = 0 THEN None ELSE parent_tree[t]]
    /\ last' = [op |-> "remove_zero", self |-> tree, arg |-> <<screen, subtrees>>,
                size |-> data_size[tree], ret |-> generate_treemap(tree, screen)]
    /\ UNCHANGED <<root, data_size, colour, tree_list, rng, tree, screen, selected_leaf>>

NextTransparent ==
    Construct(MaxLayoutNodes) \/ RunAny \/ DeleteLeaf \/ RemoveZero

SpecTransparent == Init /\ [][NextTransparent]_vars

\* ------------------------------------------- delete outside its contract
\* AbstractTree.delete on an object that has no parent: _root is set to None,
\* then self._parent_tree.update_size raises AttributeError (None has no
\* update_size attribute) and the remaining assignments are not reached.
delete_no_parent(self) ==
    /\ parent_tree[self] = None
    /\ root' = [root EXCEPT ![self] = None]
    /\ last' = [op |-> "delete", self |-> self, arg |-> <<>>,
                size |-> data_size[self], ret |-> AttributeError]
    /\ UNCHANGED <<subtrees, parent_tree, data_size, colour, tree_list, rng, tree, screen>>

\* delete() on an object that has children and a parent
DeleteInner ==
    /\ tree # None
    /\ \E t \in Built : subtrees[t] # <<>> /\ delete(t)
    /\ UNCHANGED selected_leaf

\* delete() on an object that has no parent: the root of the tree, a tree that
\* is a single leaf, an object already deleted
DeleteNoParent ==
    /\ tree # None
    /\ \E t \in Built : delete_no_parent(t)
    /\ UNCHANGED selected_leaf

NextCalls ==
    Construct(MaxNodes) \/ Run \/ DeleteLeaf \/ DeleteInner \/ DeleteNoParent
        \/ Resize \/ ResizeZero

SpecCalls == Init /\ [][NextCalls]_vars

\* -------------------------------------------------------------- event_loop
\* The positions of the mouse: on the treemap, its edges included, and on the
\* text line below it.
Mouse(rect) == {<<px, py>> : px \in 0..rect[3], py \in 0..(rect[4] + 1)}

\* Left-click: selected_leaf after tree.leaf_at has returned new_leaf.
select(selected, new_leaf) ==
    IF selected = new_leaf THEN None
    ELSE IF new_leaf # None THEN new_leaf
    ELSE selected

\* A delete handler that keeps the selection.
deselect_never(selected, new_leaf) == selected

\* Right-click and Delete key: selected_leaf before new_leaf.delete().
deselect(selected, new_leaf) ==
    IF selected = new_leaf /\ new_leaf # None THEN None ELSE selected

\* run_treemap_file_system on a folder that has entries; event_loop starts
\* with selected_leaf = None.
RunFolder ==
    /\ tree_list # <<>>
    /\ subtrees[tree_list[1]] # <<>>
    /\ run_treemap_file_system(Screen)

\* MOUSEBUTTONUP with button 1 at <pos>.  An exception of leaf_at ends the
\* loop before selected_leaf is assigned.
LeftClick ==
    /\ tree # None
    /\ \E pos \in Mouse(screen) :
        LET new_leaf == leaf_at(tree, pos, screen)
        IN  /\ selected_leaf' = IF new_leaf.raised THEN selected_leaf
                                ELSE select(selected_leaf, new_leaf.value)
            /\ last' = [op |-> "left_click", self |-> tree, arg |-> <<>>,
                        size |-> data_size[tree], ret |-> new_leaf]
    /\ UNCHANGED <<root, subtrees, parent_tree, data_size, colour, tree_list, rng,
                   tree, screen>>

\* MOUSEBUTTONUP with button 3 at <pos>, or any event while the Delete key is
\* down and the mouse is at <pos>: the two branches have the same code.
DeleteEvent ==
    /\ tree # None
    /\ \E pos \in Mouse(screen) :
        LET new_leaf == leaf_at(tree, pos, screen)
        IN  IF ~new_leaf.raised /\ new_leaf.value # None
            THEN /\ selected_leaf' = deselect(selected_leaf, new_leaf.value)
                 /\ delete(new_leaf.value) \/ delete_no_parent(new_leaf.value)
            ELSE /\ last' = [op |-> "delete_event", self |-> tree, arg |-> <<>>,
                             size |-> data_size[tree], ret |-> new_leaf]
                 /\ UNCHANGED <<root, subtrees, parent_tree, data_size, colour,
                                tree_list, rng, tree, screen, selected_leaf>>

\* KEYUP (Up: sign 1, Down: sign -1, any other key: sign 0) or MOUSEBUTTONUP
\* with a button other than 1 and 3 (4: sign 1, 5: sign -1, other: sign 0)
\* while a leaf is selected: selected_leaf.change_prop(0.01 * sign).
ResizeEvent ==
    /\ tree # None
    /\ selected_leaf # None
    /\ \E sign \in {-1, 0, 1} :
        /\ Fits(selected_leaf, <<sign, 100>>)
        /\ change_prop(selected_leaf, <<sign, 100>>)
    /\ UNCHANGED selected_leaf

NextEvents ==
    Construct(MaxNodes) \/ RunFolder \/ LeftClick \/ DeleteEvent \/ ResizeEvent

SpecEvents == Init /\ [][NextEvents]_vars

\* --------------------------------------------------- leaf-only mutation
\* change_prop(p) on a labelled childless object of data_size >= 1
ResizeLeaf ==
    /\ tree # None
    /\ \E t \in Built, p \in Proportions :
        /\ IsLeaf(t)
        /\ data_size[t] >= 1
        /\ Fits(t, p)
        /\ change_prop(t, p)
    /\ UNCHANGED selected_leaf

NextLeaf == Construct(MaxLayoutNodes) \/ Run \/ DeleteLeaf \/ ResizeLeaf

SpecLeaf == Init /\ [][NextLeaf]_vars

\* ================================================================ claims
\* The proper ancestors of t: its parent, the parent's parent, ... the root.
RECURSIVE Ancestors(_)
Ancestors(t) ==
    IF parent_tree[t] = None THEN {}
    ELSE {parent_tree[t]} \cup Ancestors(parent_tree[t])

\* The delta the resize rule asks for before clamping:
\* ceil(w * p) for p >= 0, -ceil(w * |p|) for p < 0.
Wanted(w, p) ==
    IF p[1] >= 0 THEN ceil(w * p[1], p[2]) ELSE -ceil(w * abs(p[1]), p[2])

\* C1 (weight conservation): after any sequence of delete() calls on labelled
\* leaves that have a parent and change_prop(p) calls on any node of weight
\* >= 1, every node that has a child has data_size equal to the sum of its
\* children's data_size.
C1_WeightConservation ==
    \A t \in Built :
        subtrees[t] # <<>> => data_size[t] = Sum(data_size, subtrees[t])

\* The childless nodes of positive data_size below t, depth first, children in
\* stored order.
RECURSIVE PositiveLeaves(_)
RECURSIVE PositiveLeavesOfAll(_)
PositiveLeaves(t) ==
    IF subtrees[t] = <<>>
    THEN IF data_size[t] > 0 THEN <<t>> ELSE <<>>
    ELSE PositiveLeavesOfAll(subtrees[t])

PositiveLeavesOfAll(seq) ==
    IF seq = <<>> THEN <<>>
    ELSE PositiveLeaves(Head(seq)) \o PositiveLeavesOfAll(Tail(seq))

\* pos lies in rectangle r, edges included.
Contains(r, pos) ==
    /\ r[1] <= pos[1] /\ pos[1] <= r[1] + r[3]
    /\ r[2] <= pos[2] /\ pos[2] <= r[2] + r[4]

\* Rectangle r lies inside rectangle outer.
Within(r, outer) ==
    /\ r[3] >= 0 /\ r[4] >= 0
    /\ outer[1] <= r[1] /\ r[1] + r[3] <= outer[1] + outer[3]
    /\ outer[2] <= r[2] /\ r[2] + r[4] <= outer[2] + outer[4]

\* The interiors of rectangles a and b do not meet.
InteriorsDisjoint(a, b) ==
    \/ a[3] = 0 \/ a[4] = 0 \/ b[3] = 0 \/ b[4] = 0
    \/ a[1] + a[3] <= b[1] \/ b[1] + b[3] <= a[1]
    \/ a[2] + a[4] <= b[2] \/ b[2] + b[4] <= a[2]

RECURSIVE AreaSum(_)
AreaSum(tm) ==
    IF tm = <<>> THEN 0 ELSE Head(tm)[1][3] * Head(tm)[1][4] + AreaSum(Tail(tm))

\* C2 (layout/hit-test consistency): for a tree of positive data_size that
\* satisfies the weight invariants, zero-weight children included, and a point
\* p inside rect, leaf_at(p, rect) returns a leaf L, and the rectangle that
\* generate_treemap(rect) produces for L contains p, edges inclusive.
C2_HitTestConsistent ==
    (/\ last.op = "leaf_at"
     /\ last.size > 0
     /\ last.arg[1] \in Inside(last.arg[2])) =>
        LET leaves == PositiveLeaves(last.self)
            treemap == generate_treemap(last.self, last.arg[2])
        IN  /\ ~last.ret.raised
            /\ ~treemap.raised
            /\ \E i \in 1..Len(leaves) :
                   /\ leaves[i] = last.ret.value
                   /\ i <= Len(treemap.value)
                   /\ Contains(treemap.value[i][1], last.arg[1])

\* C3 (layout coverage): for a tree of data_size > 0 that satisfies the weight
\* invariants, after any leaf deletions, the rectangles generate_treemap
\* returns lie inside the input rectangle, have pairwise disjoint interiors,
\* and their areas sum to w * h.
C3_LayoutCoverage ==
    (last.op = "generate_treemap" /\ last.size > 0) =>
        /\ ~last.ret.raised
        /\ \A i \in 1..Len(last.ret.value) :
               Within(last.ret.value[i][1], last.arg)
        /\ \A i \in 1..Len(last.ret.value) : \A j \in 1..Len(last.ret.value) :
               i # j => InteriorsDisjoint(last.ret.value[i][1], last.ret.value[j][1])
        /\ AreaSum(last.ret.value) = last.arg[3] * last.arg[4]

\* generate_treemap has laid out, in a rectangle away from the origin, a tree
\* whose last child is a deleted leaf: two rectangles of positive area.
C3_Witness ==
    /\ last.op = "generate_treemap"
    /\ last.size > 0
    /\ last.arg[1] > 0
    /\ subtrees[last.self] # <<>>
    /\ root[subtrees[last.self][Len(subtrees[last.self])]] = None
    /\ ~last.ret.raised
    /\ \E i \in 1..Len(last.ret.value) : \E j \in 1..Len(last.ret.value) :
           /\ i # j
           /\ last.ret.value[i][1][3] * last.ret.value[i][1][4] > 0
           /\ last.ret.value[j][1][3] * last.ret.value[j][1][4] > 0

\* C4 (one pair per positive leaf): generate_treemap returns exactly one
\* <<rectangle, colour>> pair per childless node of positive data_size below
\* the node, in depth-first stored-children order, each with that leaf's
\* colour, and the empty list when the node's data_size is 0; also when the
\* re-stretch of the last positive-weight child replaces earlier entries.
C4_OnePairPerLeaf ==
    last.op = "generate_treemap" =>
        /\ ~last.ret.raised
        /\ Len(last.ret.value) = Len(PositiveLeaves(last.self))
        /\ \A i \in 1..Len(last.ret.value) :
               last.ret.value[i][2] = colour[PositiveLeaves(last.self)[i]]
        /\ last.size = 0 => last.ret.value = <<>>

\* generate_treemap has re-stretched the last positive-weight child because
\* the children after it have data_size 0: that child's entry was replaced, the
\* entry of an earlier child was kept, and the two colours differ.
C4_Witness ==
    /\ last.op = "generate_treemap"
    /\ ~last.ret.raised
    /\ last.arg[3] > 0 /\ last.arg[4] > 0
    /\ Len(subtrees[last.self]) >= 3
    /\ data_size[subtrees[last.self][Len(subtrees[last.self])]] = 0
    /\ \E i \in 2..(Len(subtrees[last.self]) - 1) :
           /\ data_size[subtrees[last.self][i]] > 0
           /\ data_size[subtrees[last.self][i - 1]] > 0
           /\ \A j \in (i + 1)..Len(subtrees[last.self]) :
                  data_size[subtrees[last.self][j]] = 0
    /\ Len(last.ret.value) = 2
    /\ last.ret.value[1][2] # last.ret.value[2][2]

\* C5 (delete post-condition): delete() on a labelled, childless node L of
\* data_size w with parent P leaves L with no label, data_size 0 and no parent;
\* every former ancestor of L has lost exactly w; P's children sequence is the
\* same, L still in it; nothing else of any node changes.
C5_DeletePost ==
    [][\A t \in Built :
        (tree # None /\ IsLeaf(t) /\ delete(t)) =>
            /\ Len(root') = Len(root)
            /\ root'[t] = None /\ data_size'[t] = 0 /\ parent_tree'[t] = None
            /\ \A a \in Ancestors(t) : data_size'[a] = data_size[a] - data_size[t]
            /\ subtrees' = subtrees
            /\ \E i \in 1..Len(subtrees'[parent_tree[t]]) :
                   subtrees'[parent_tree[t]][i] = t
            /\ \A o \in Built \ {t} :
                   /\ root'[o] = root[o]
                   /\ parent_tree'[o] = parent_tree[o]
                   /\ o \notin Ancestors(t) => data_size'[o] = data_size[o]
      ]_vars

\* A leaf of positive weight, two levels below the root, has been deleted.
C5_Witness ==
    /\ last.op = "delete"
    /\ last.size > 0
    /\ root[last.self] = None
    /\ \E p \in Built :
           /\ last.self \in Range(subtrees[p])
           /\ parent_tree[p] # None

\* C6 (resize floor): after change_prop(p) on a node of data_size >= 1, for
\* any p, the node's data_size is >= 1.
C6_ResizeFloor ==
    (last.op = "change_prop" /\ last.size >= 1) => data_size[last.self] >= 1

\* A shrink whose unclamped delta would take the node below 1 has happened.
C6_Witness ==
    /\ last.op = "change_prop"
    /\ last.size >= 1
    /\ last.arg[1] < 0
    /\ last.size + Wanted(last.size, last.arg) < 1
    /\ data_size[last.self] >= 1

\* C7 (resize clamp): after change_prop(p) with p < 0 on a node of data_size
\* w >= 1 with w - ceil(w * |p|) < 1, the node's data_size is exactly 1.
C7_ResizeClamp ==
    (/\ last.op = "change_prop"
     /\ last.size >= 1
     /\ last.arg[1] < 0
     /\ last.size - ceil(last.size * abs(last.arg[1]), last.arg[2]) < 1)
        => data_size[last.self] = 1

\* C8 (unclamped resize and propagation): change_prop(p) on a node of
\* data_size w >= 1 with w + d >= 1, d the unclamped delta, adds exactly d to
\* the node and to every ancestor, and changes no other data_size.
C8_ResizePropagates ==
    [][\A t \in Built : \A p \in Proportions :
        (/\ tree # None
         /\ data_size[t] >= 1
         /\ data_size[t] + Wanted(data_size[t], p) >= 1
         /\ change_prop(t, p)) =>
            /\ Len(data_size') = Len(data_size)
            /\ \A o \in Built :
                   data_size'[o] = data_size[o] +
                       (IF o = t \/ o \in Ancestors(t)
                        THEN Wanted(data_size[t], p) ELSE 0)
      ]_vars

\* An unclamped, non-zero resize of a node two levels below the root.
C8_Witness ==
    /\ last.op = "change_prop"
    /\ last.size >= 1
    /\ Wanted(last.size, last.arg) # 0
    /\ last.size + Wanted(last.size, last.arg) >= 1
    /\ data_size[last.self] = last.size + Wanted(last.size, last.arg)
    /\ parent_tree[last.self] # None
    /\ parent_tree[parent_tree[last.self]] # None

\* C9 (degenerate resize is a no-op): change_prop(p) on a node of data_size 0
\* changes no data_size, so no data_size ever becomes negative.
C9_DegenerateResize ==
    [][\A t \in Built : \A p \in Proportions :
        (tree # None /\ data_size[t] = 0 /\ change_prop(t, p)) =>
            /\ data_size' = data_size
            /\ \A o \in Built : data_size'[o] >= 0
      ]_vars

\* C10 (construction with children): with a non-empty subtrees list the new
\* node's data_size is the sum of the subtrees' data_size whatever the
\* data_size argument, and every subtree's parent is the new node; with an
\* empty list the data_size is the argument.
C10_Construction ==
    last.op = "__init__" =>
        IF last.arg[1] # <<>>
        THEN /\ data_size[last.self] = Sum(data_size, last.arg[1])
             /\ \A c \in Range(last.arg[1]) : parent_tree[c] = last.self
        ELSE data_size[last.self] = last.arg[2]

\* C11 (invalid delete is rejected): delete() on a node whose label is already
\* absent, or on a node that has children, leaves the data_size of every node
\* unchanged, whether the call raises or returns.
C11_InvalidDelete ==
    [][\A t \in Built :
        (/\ tree # None
         /\ is_empty(t) \/ subtrees[t] # <<>>
         /\ delete(t) \/ delete_no_parent(t)) => data_size' = data_size
      ]_vars

\* C12 (no partial mutation): when delete() ends by raising an error, the
\* label, data_size, parent and children of every node are what they were
\* before the call (change_prop raises on no input).
C12_NoPartialMutation ==
    [][\A t \in Built :
        (tree # None /\ delete_no_parent(t)) =>
            /\ root' = root
            /\ data_size' = data_size
            /\ parent_tree' = parent_tree
            /\ subtrees' = subtrees
      ]_vars

\* C13 (leaf_at result): on a tree that satisfies the weight invariants, after
\* any leaf deletions, leaf_at(pos, rect) does not raise; it returns None when
\* the tree's data_size is 0 or pos is outside rect; and with pos inside rect
\* (edges included) and data_size > 0 it returns a labelled, childless node of
\* data_size > 0 that belongs to the tree.
C13_LeafAtResult ==
    last.op = "leaf_at" =>
        /\ ~last.ret.raised
        /\ (last.size = 0 \/ last.arg[1] \notin Inside(last.arg[2]))
               => last.ret.value = None
        /\ (last.size > 0 /\ last.arg[1] \in Inside(last.arg[2])) =>
               /\ last.ret.value # None
               /\ root[last.ret.value] # None
               /\ subtrees[last.ret.value] = <<>>
               /\ data_size[last.ret.value] > 0
               /\ \/ last.ret.value = last.self
                  \/ last.self \in Ancestors(last.ret.value)

\* leaf_at has returned a leaf for a position on the far edge of the
\* rectangle, in a tree whose last child is a deleted leaf.
C13_Witness ==
    /\ last.op = "leaf_at"
    /\ last.size > 0
    /\ last.arg[2][3] > 0 /\ last.arg[2][4] > 0
    /\ last.arg[1] = <<last.arg[2][1] + last.arg[2][3], last.arg[2][2] + last.arg[2][4]>>
    /\ subtrees[last.self] # <<>>
    /\ root[subtrees[last.self][Len(subtrees[last.self])]] = None
    /\ ~last.ret.raised
    /\ last.ret.value # None
    /\ parent_tree[last.ret.value] = last.self

\* C14 (zero-weight slots are layout-transparent): on a tree that satisfies the
\* weight invariants, generate_treemap returns the same list of
\* <<rectangle, colour>> pairs as on the tree with every zero-weight child
\* removed from every children sequence, wherever those children sit.
C14_ZeroTransparent ==
    last.op = "remove_zero" =>
        /\ ~last.ret.raised
        /\ generate_treemap(tree, screen) = last.ret

\* The root had a zero-weight first child and a zero-weight last child around
\* a positive one, and the layout in a rectangle of positive area is not empty.
C14_Witness ==
    /\ last.op = "remove_zero"
    /\ last.arg[1][3] > 0 /\ last.arg[1][4] > 0
    /\ Len(last.arg[2][last.self]) >= 3
    /\ data_size[last.arg[2][last.self][1]] = 0
    /\ data_size[last.arg[2][last.self][Len(last.arg[2][last.self])]] = 0
    /\ Len(subtrees[last.self]) >= 1
    /\ ~last.ret.raised
    /\ last.ret.value # <<>>

\* C15 (selection validity in the event loop): along any sequence of UI events
\* on a tree whose root has children, selected_leaf is None or a labelled,
\* childless node of data_size >= 1 that still has its parent link; no node is
\* deleted while it stays selected, and change_prop is never applied to a
\* deleted or zero-weight node.
C15_SelectionValid ==
    /\ selected_leaf # None =>
           /\ root[selected_leaf] # None
           /\ subtrees[selected_leaf] = <<>>
           /\ data_size[selected_leaf] >= 1
           /\ parent_tree[selected_leaf] # None
    /\ last.op = "delete" => selected_leaf # last.self
    /\ last.op = "change_prop" => (last.size >= 1 /\ root[last.self] # None)

\* The selected leaf has been enlarged after another leaf of the tree was
\* deleted.
C15_Witness ==
    /\ last.op = "change_prop"
    /\ selected_leaf # None
    /\ last.self = selected_leaf
    /\ data_size[selected_leaf] > last.size
    /\ \E t \in Range(subtrees[tree]) : root[t] = None

\* C16 (leaf-only mutation keeps the tree consistent): when delete() is only
\* applied to labelled childless nodes that have a parent and change_prop()
\* only to labelled childless nodes of data_size >= 1, every node with
\* children has data_size equal to the sum of its children's data_size and
\* every data_size is >= 0.
C16_LeafOnlyConsistent ==
    /\ \A t \in Built :
           subtrees[t] # <<>> => data_size[t] = Sum(data_size, subtrees[t])
    /\ \A t \in Built : data_size[t] >= 0

\* A leaf two levels below the root has been resized with a shrink that the
\* floor of 1 replaced, and its data_size has changed.
C16_Witness ==
    /\ last.op = "change_prop"
    /\ IsLeaf(last.self)
    /\ last.size + Wanted(last.size, last.arg) < 1
    /\ data_size[last.self] # last.size
    /\ parent_tree[last.self] # None
    /\ parent_tree[parent_tree[last.self]] # None

====
